---- MODULE Spec2Model ----
(***************************************************************************)
(* Model of the real-time synchronization client of CyberIntel-X,          *)
(* frontend/src/services/websocket.js (class WebSocketService).            *)
(*                                                                         *)
(* The service is single threaded: every method call and every transport  *)
(* event handler (onopen, onerror, onclose, timer callback) runs to        *)
(* completion, so each is one action.  The browser WebSocket objects are   *)
(* the environment: a transport has a phase, and the environment decides   *)
(* when it opens, fails and closes.  The transport this.socket refers to   *)
(* is kept by its phase; the transports disconnect() has let go of, whose  *)
(* handlers are still attached and whose close event is still to come, are *)
(* kept as a bag.                                                          *)
(***************************************************************************)
EXTENDS Integers, Sequences, FiniteSets, TLC

(* ------------------------------ bounds -------------------------------- *)
\* number of transports disconnect() has let go of that have not closed yet
MaxStale == 1
\* number of send() calls (application messages and keepalive pings)
MaxSends == 2
\* number of reconnect timers pending at once
MaxTimers == 1
\* number of waitForConnection() calls
MaxWaiters == 2

(* ------------------------- program constants -------------------------- *)
maxReconnectAttempts == 5
NORMAL_CLOSURE == 1000
BACKOFF_BASE == 1000
BACKOFF_CAP == 30000

\* close codes other than the normal closure that a transport can report
\* (1006 abnormal termination, 1001 going away)
AbnormalCodes == {1001, 1006}
CloseCodes == {NORMAL_CLOSURE} \cup AbnormalCodes

\* a URL is valid or not (new URL(url) throws on an invalid one) and carries
\* "none", "one" or "many" (two or more) "token" query parameters
Url(valid, tokens) == [valid |-> valid, tokens |-> tokens]

\* wsUrl.searchParams.append('token', token)
appendToken(tokens) == IF tokens = "none" THEN "one" ELSE "many"

WS_UPDATES_URL == Url(TRUE, "none")
\* the URLs application code passes to connect()
AppUrls == {Url(TRUE, "none"), Url(FALSE, "none")}

VARIABLES
  socket,             \* this.socket: "null", or the phase of the transport it refers to
  connected,          \* this.connected
  reconnectAttempts,  \* this.reconnectAttempts
  messageQueue,       \* this.messageQueue
  pingInterval,       \* this.pingInterval is armed
  intervals,          \* number of setInterval timers of startPingPong not cleared
  connectionPromise,  \* this.connectionPromise: "null", or the state of the promise
  lastUrl,            \* this.lastUrl: {} = null, {u} = the URL u
  stale,              \* transports let go of by disconnect(), not closed yet: phase -> number
  timers,             \* number of pending setTimeout callbacks of handleReconnect
  notified,           \* a "Please refresh the page" snackbar has been emitted
  wire,               \* ids of the messages handed to socket.send, in order
  nextId,             \* number of send() calls made so far
  made,               \* what connect() did in the last step: "none" (not called), "same"
                      \* (returned the stored promise), "promise" (new promise, the
                      \* transport could not be created), "transport" (new promise and transport)
  drained,            \* history: number of frames processMessageQueue has transmitted
  closeStreak,        \* history: abnormal closes since the last open
  lastDelay,          \* delay passed to the last setTimeout of this streak, 0 = none
  orphaned,           \* history: number of the pending timers that were already pending
                      \* when disconnect() was last called, the application not having
                      \* called connect() since
  afterDisconnect,    \* history: disconnect() has returned and connect() has not been
                      \* called since
  subscribers,        \* this.subscribers: event key -> reference to its array of callbacks
  arrays,             \* the callback arrays ever created, by reference; the unsubscribe
                      \* closures keep the reference of the array they were made for
  closures,           \* the unsubscribe functions returned to the application, in the
                      \* order of the subscribe() calls
  invoked,            \* the callbacks the service invoked in the last step, in order
  snackbar,           \* the notification the last step showed: "none", "error",
                      \* "notification" or "status"
  ctxReady,           \* WebSocketProvider.initWebSocket has registered its callbacks
  ctxSubscribers,     \* subscribersRef.current of WebSocketProvider: event key -> Set
  ctxInvoked,         \* the callbacks the provider invoked in the last step
  connectionResolvers, \* this.connectionResolvers: the resolve functions of the promises
                      \* waitForConnection() returned while not connected, by promise
  promises            \* the promises waitForConnection() has returned, in the order of
                      \* the calls: whether its resolve function was pushed, how often
                      \* it was called, and the value of this.socket it was first given

vars == <<socket, connected, reconnectAttempts, messageQueue, pingInterval, intervals,
          connectionPromise, lastUrl, stale, timers, notified, wire,
          nextId, made, drained, closeStreak, lastDelay, orphaned,
          afterDisconnect, subscribers, arrays, closures, invoked, snackbar,
          ctxReady, ctxSubscribers, ctxInvoked, connectionResolvers, promises>>

connVars == <<socket, connectionPromise, lastUrl>>
retryVars == <<reconnectAttempts, timers, notified, closeStreak, lastDelay>>
sendVars == <<messageQueue, wire, nextId, drained>>
histVars == <<orphaned, afterDisconnect>>
waitVars == <<connectionResolvers, promises>>
\* the Subscription Registry, what the last step delivered, and the provider
regVars == <<subscribers, arrays, closures, invoked, snackbar, ctxReady,
             ctxSubscribers, ctxInvoked>>
lifeVars == <<socket, connected, reconnectAttempts, messageQueue, pingInterval, intervals,
              connectionPromise, lastUrl, stale, timers, notified, wire,
              nextId, made, drained, closeStreak, lastDelay, orphaned,
              afterDisconnect, connectionResolvers, promises>>

\* a Map as a function on the set of its keys
EmptyMap == [k \in {} |-> 0]
MapSet(m, key, v) == [k \in DOMAIN m \cup {key} |-> IF k = key THEN v ELSE m[k]]
MapDelete(m, key) == [k \in DOMAIN m \ {key} |-> m[k]]

Min(a, b) == IF a <= b THEN a ELSE b

StalePhases == {"CLOSING", "FAILING"}

Init ==
  /\ socket = "null"
  /\ connected = FALSE
  /\ reconnectAttempts = 0
  /\ messageQueue = <<>>
  /\ pingInterval = FALSE
  /\ intervals = 0
  /\ connectionPromise = "null"
  /\ lastUrl = {}
  /\ stale = [k \in StalePhases |-> 0]
  /\ timers = 0
  /\ notified = FALSE
  /\ wire = <<>>
  /\ nextId = 0
  /\ made = "none"
  /\ drained = 0
  /\ closeStreak = 0
  /\ lastDelay = 0
  /\ orphaned = 0
  /\ afterDisconnect = FALSE
  /\ subscribers = EmptyMap
  /\ arrays = <<>>
  /\ closures = <<>>
  /\ invoked = <<>>
  /\ snackbar = "none"
  /\ ctxReady = FALSE
  /\ ctxSubscribers = EmptyMap
  /\ ctxInvoked = {}
  /\ connectionResolvers = <<>>
  /\ promises = <<>>

(* ----------------------------- keepalive ------------------------------ *)
\* startPingPong(): clear the interval that is armed, if any, and arm a new one
startPingPong ==
  /\ pingInterval' = TRUE
  /\ intervals' = (IF pingInterval THEN intervals - 1 ELSE intervals) + 1

\* stopPingPong() leaving the interval armed
stopPingPong_Keep == UNCHANGED <<pingInterval, intervals>>

\* stopPingPong()
stopPingPong ==
  IF pingInterval
  THEN /\ pingInterval' = FALSE
       /\ intervals' = intervals - 1
  ELSE UNCHANGED <<pingInterval, intervals>>

(* ------------------------------ connect ------------------------------- *)
\* connect() without the early return on a stored promise
connect_NoGuard(url, token) ==
  IF url.valid
  THEN /\ made' = "transport"
       /\ connectionPromise' = "pending"
       /\ socket' = "CONNECTING"
       /\ lastUrl' = {Url(TRUE, IF token THEN appendToken(url.tokens) ELSE url.tokens)}
  ELSE /\ made' = "promise"
       /\ connectionPromise' = "rejected"
       /\ UNCHANGED <<socket, lastUrl>>

\* connect(url) with the token read from localStorage present or not; the
\* value returned is this.connectionPromise as the call leaves it
connect(url, token) ==
  IF connectionPromise # "null"
  THEN /\ made' = "same"
       /\ UNCHANGED <<socket, connectionPromise, lastUrl>>
  ELSE IF url.valid
       THEN /\ made' = "transport"
            /\ connectionPromise' = "pending"
            /\ socket' = "CONNECTING"
            /\ lastUrl' = {Url(TRUE, IF token THEN appendToken(url.tokens) ELSE url.tokens)}
       ELSE /\ made' = "promise"
            /\ connectionPromise' = "rejected"
            /\ UNCHANGED <<socket, lastUrl>>

Connect(url, token) ==
  /\ connect(url, token)
  /\ orphaned' = 0
  /\ afterDisconnect' = FALSE
  /\ UNCHANGED regVars
  /\ UNCHANGED waitVars
  /\ UNCHANGED <<connected, pingInterval, intervals, stale>>
  /\ UNCHANGED retryVars
  /\ UNCHANGED sendVars

\* the visibilitychange listener with the trigger resetting the backoff
VisibilityChange_ResetBackoff(token) ==
  /\ lastUrl # {}
  /\ IF ~connected
     THEN connect(WS_UPDATES_URL, token)
     ELSE /\ made' = "none"
          /\ UNCHANGED connVars
  /\ orphaned' = 0
  /\ afterDisconnect' = (connected /\ afterDisconnect)
  /\ reconnectAttempts' = 0
  /\ UNCHANGED <<timers, notified, closeStreak, lastDelay>>
  /\ UNCHANGED regVars
  /\ UNCHANGED waitVars
  /\ UNCHANGED <<connected, pingInterval, intervals, stale>>
  /\ UNCHANGED sendVars

\* the visibilitychange listener, for a page that has become visible.  The
\* listener is registered once the module has made its first connect() with
\* the configured URL, which leaves lastUrl set.
VisibilityChange(token) ==
  /\ lastUrl # {}
  /\ IF ~connected
     THEN connect(WS_UPDATES_URL, token)
     ELSE /\ made' = "none"
          /\ UNCHANGED connVars
  /\ orphaned' = 0
  /\ afterDisconnect' = (connected /\ afterDisconnect)
  /\ UNCHANGED retryVars
  /\ UNCHANGED regVars
  /\ UNCHANGED waitVars
  /\ UNCHANGED <<connected, pingInterval, intervals, stale>>
  /\ UNCHANGED sendVars

(* ----------------------------- disconnect ----------------------------- *)
\* socket.close(1000, ...) on the transport this.socket refers to, which the
\* service then lets go of: an open transport starts the closing handshake, a
\* connecting one is failed, a failed one stays failed, and a closed one
\* delivers no further event
close(sock) ==
  IF sock = "OPEN" THEN [stale EXCEPT !["CLOSING"] = @ + 1]
  ELSE IF sock \in {"CONNECTING", "FAILING"} THEN [stale EXCEPT !["FAILING"] = @ + 1]
  ELSE stale

staleCount == stale["CLOSING"] + stale["FAILING"]

Disconnect ==
  /\ IF socket # "null"
     THEN /\ socket = "CLOSED" \/ staleCount < MaxStale
          /\ stale' = close(socket)
          /\ socket' = "null"
          /\ connected' = FALSE
          /\ stopPingPong
          /\ connectionPromise' = "null"
     ELSE UNCHANGED <<stale, socket, connected, pingInterval, intervals, connectionPromise>>
  /\ made' = "none"
  /\ orphaned' = timers
  /\ afterDisconnect' = TRUE
  /\ UNCHANGED regVars
  /\ UNCHANGED waitVars
  /\ UNCHANGED lastUrl
  /\ UNCHANGED retryVars
  /\ UNCHANGED sendVars

(* -------------------------------- send -------------------------------- *)
\* a message is its send() sequence number and whether JSON.stringify accepts
\* it (a payload with a circular reference or a BigInt makes it throw)
Msg(id, ok) == [id |-> id, ok |-> ok]

\* the try block of send() throws: JSON.stringify rejects the payload,
\* this.socket is null, or WebSocket.send is called on a transport that is
\* still connecting (InvalidStateError)
throws(sock, m) ==
  \/ ~m.ok
  \/ sock \in {"null", "CONNECTING"}

\* send() queueing with unshift instead of push
send_Unshift(conn, sock, q, w, m) ==
  IF ~conn
  THEN [ret |-> FALSE, queue |-> <<m>> \o q, wire |-> w]
  ELSE IF throws(sock, m)
       THEN [ret |-> FALSE, queue |-> q, wire |-> w]
       ELSE [ret |-> TRUE, queue |-> q, wire |-> Append(w, m.id)]

\* send(message) on the state (conn, sock, q, w); the result carries the
\* return value and the queue and wire after the call
send(conn, sock, q, w, m) ==
  IF ~conn
  THEN [ret |-> FALSE, queue |-> Append(q, m), wire |-> w]
  ELSE IF throws(sock, m)
       THEN [ret |-> FALSE, queue |-> q, wire |-> w]
       ELSE [ret |-> TRUE, queue |-> q, wire |-> Append(w, m.id)]

\* processMessageQueue() with an if in place of the while
processMessageQueue_Once(conn, sock, q, w) ==
  IF Len(q) > 0 /\ conn
  THEN LET r == send(conn, sock, Tail(q), w, Head(q))
       IN  [queue |-> r.queue, wire |-> r.wire]
  ELSE [queue |-> q, wire |-> w]

\* processMessageQueue(): while (queue.length > 0 && connected) send(queue.shift())
RECURSIVE processMessageQueue(_, _, _, _)
processMessageQueue(conn, sock, q, w) ==
  IF Len(q) > 0 /\ conn
  THEN LET r == send(conn, sock, Tail(q), w, Head(q))
       IN  processMessageQueue(conn, sock, r.queue, r.wire)
  ELSE [queue |-> q, wire |-> w]

Send(ok) ==
  /\ nextId < MaxSends
  /\ LET r == send(connected, socket, messageQueue, wire, Msg(nextId + 1, ok))
     IN  /\ messageQueue' = r.queue
         /\ wire' = r.wire
  /\ nextId' = nextId + 1
  /\ made' = "none"
  /\ UNCHANGED <<connected, pingInterval, intervals, stale, drained>>
  /\ UNCHANGED connVars
  /\ UNCHANGED retryVars
  /\ UNCHANGED histVars
  /\ UNCHANGED regVars
  /\ UNCHANGED waitVars

\* the setInterval callback of startPingPong
PingTick ==
  /\ pingInterval
  /\ IF connected
     THEN /\ nextId < MaxSends
          /\ LET r == send(connected, socket, messageQueue, wire, Msg(nextId + 1, TRUE))
             IN  /\ messageQueue' = r.queue
                 /\ wire' = r.wire
          /\ nextId' = nextId + 1
          /\ UNCHANGED drained
     ELSE UNCHANGED sendVars
  /\ made' = "none"
  /\ UNCHANGED <<connected, pingInterval, intervals, stale>>
  /\ UNCHANGED connVars
  /\ UNCHANGED retryVars
  /\ UNCHANGED histVars
  /\ UNCHANGED regVars
  /\ UNCHANGED waitVars

(* --------------------------- handleReconnect -------------------------- *)
Pow2(n) == 2 ^ n

\* the backoff without its cap
backoffDelay_NoCap(attempts) == BACKOFF_BASE * Pow2(attempts)

\* Math.min(1000 * Math.pow(2, attempts), 30000)
backoffDelay(attempts) == Min(BACKOFF_BASE * Pow2(attempts), BACKOFF_CAP)

\* handleReconnect() comparing with > instead of >=
handleReconnect_OffByOne ==
  IF reconnectAttempts > maxReconnectAttempts
  THEN /\ notified' = TRUE
       /\ UNCHANGED <<reconnectAttempts, timers, lastDelay>>
  ELSE /\ timers < MaxTimers
       /\ reconnectAttempts' = reconnectAttempts + 1
       /\ timers' = timers + 1
       /\ lastDelay' = backoffDelay(reconnectAttempts + 1)
       /\ UNCHANGED notified

handleReconnect ==
  IF reconnectAttempts >= maxReconnectAttempts
  THEN /\ notified' = TRUE
       /\ UNCHANGED <<reconnectAttempts, timers, lastDelay>>
  ELSE /\ timers < MaxTimers
       /\ reconnectAttempts' = reconnectAttempts + 1
       /\ timers' = timers + 1
       /\ lastDelay' = backoffDelay(reconnectAttempts + 1)
       /\ UNCHANGED notified

\* the setTimeout callback of handleReconnect.  Every pending callback runs
\* the same code whatever its delay, so only their number is kept; the one
\* that fires is either one that was pending at the last disconnect() or one
\* scheduled since.
TimerFire(token) ==
  /\ timers > 0
  /\ timers' = timers - 1
  /\ \/ orphaned > 0 /\ orphaned' = orphaned - 1
     \/ orphaned < timers /\ orphaned' = orphaned
  /\ IF ~connected
     THEN /\ connect(IF lastUrl = {} THEN WS_UPDATES_URL ELSE CHOOSE u \in lastUrl : TRUE, token)
          /\ afterDisconnect' = FALSE
     ELSE /\ made' = "none"
          /\ UNCHANGED connVars
          /\ UNCHANGED afterDisconnect
  /\ UNCHANGED <<connected, pingInterval, intervals, stale>>
  /\ UNCHANGED <<reconnectAttempts, notified, closeStreak, lastDelay>>
  /\ UNCHANGED sendVars
  /\ UNCHANGED regVars
  /\ UNCHANGED waitVars

(* -------------------------- transport events -------------------------- *)
\* resolve / reject settle the promise only while it is pending
settle(p, outcome) == IF p = "pending" THEN outcome ELSE p

\* the calls of the resolve functions in list, each with this.socket = value
resolveAll(ps, list, value) ==
  [w \in 1..Len(ps) |->
     LET n == Cardinality({i \in 1..Len(list) : list[i] = w})
     IN  IF n = 0 THEN ps[w]
         ELSE [ps[w] EXCEPT !.calls = @ + n,
                            !.value = IF ps[w].calls = 0 THEN value ELSE @]]

\* onopen resolving the waiters without emptying the list
resolveWaiters_KeepList ==
  /\ promises' = resolveAll(promises, connectionResolvers, "OPEN")
  /\ UNCHANGED connectionResolvers

\* this.connectionResolvers.forEach(resolver => resolver(this.socket));
\* this.connectionResolvers = []
resolveWaiters ==
  /\ promises' = resolveAll(promises, connectionResolvers, "OPEN")
  /\ connectionResolvers' = <<>>

\* onopen without the reset of reconnectAttempts
OnOpen_NoReset ==
  /\ socket = "CONNECTING"
  /\ socket' = "OPEN"
  /\ connected' = TRUE
  /\ UNCHANGED reconnectAttempts
  /\ startPingPong
  /\ LET r == processMessageQueue(TRUE, "OPEN", messageQueue, wire)
     IN  /\ messageQueue' = r.queue
         /\ wire' = r.wire
         /\ drained' = drained + (Len(r.wire) - Len(wire))
  /\ connectionPromise' = settle(connectionPromise, "resolved")
  /\ closeStreak' = 0
  /\ lastDelay' = 0
  /\ made' = "none"
  /\ UNCHANGED <<lastUrl, stale, timers, notified, nextId>>
  /\ UNCHANGED histVars
  /\ UNCHANGED regVars
  /\ resolveWaiters

\* onopen without the call of processMessageQueue
OnOpen_NoDrain ==
  /\ socket = "CONNECTING"
  /\ socket' = "OPEN"
  /\ connected' = TRUE
  /\ reconnectAttempts' = 0
  /\ startPingPong
  /\ connectionPromise' = settle(connectionPromise, "resolved")
  /\ closeStreak' = 0
  /\ lastDelay' = 0
  /\ made' = "none"
  /\ UNCHANGED <<lastUrl, stale, timers, notified>>
  /\ UNCHANGED sendVars
  /\ UNCHANGED histVars
  /\ UNCHANGED regVars
  /\ resolveWaiters

\* socket.onopen of the transport this.socket refers to.  A transport opens
\* only while connecting, and disconnect() closes the transport it lets go
\* of, so no other transport can open.
OnOpen ==
  /\ socket = "CONNECTING"
  /\ socket' = "OPEN"
  /\ connected' = TRUE
  /\ reconnectAttempts' = 0
  /\ startPingPong
  /\ LET r == processMessageQueue(TRUE, "OPEN", messageQueue, wire)
     IN  /\ messageQueue' = r.queue
         /\ wire' = r.wire
         /\ drained' = drained + (Len(r.wire) - Len(wire))
  /\ connectionPromise' = settle(connectionPromise, "resolved")
  /\ closeStreak' = 0
  /\ lastDelay' = 0
  /\ made' = "none"
  /\ UNCHANGED <<lastUrl, stale, timers, notified, nextId>>
  /\ UNCHANGED histVars
  /\ UNCHANGED regVars
  /\ resolveWaiters

\* onerror retrying by itself
OnError_Retry ==
  /\ socket \in {"CONNECTING", "OPEN"}
  /\ socket' = "FAILING"
  /\ connectionPromise' = settle(connectionPromise, "rejected")
  /\ made' = "none"
  /\ handleReconnect
  /\ UNCHANGED closeStreak
  /\ UNCHANGED <<connected, pingInterval, intervals, lastUrl, stale>>
  /\ UNCHANGED sendVars
  /\ UNCHANGED histVars
  /\ UNCHANGED regVars
  /\ UNCHANGED waitVars

\* socket.onerror of the transport this.socket refers to: the transport
\* failed; its close event follows
OnError ==
  /\ socket \in {"CONNECTING", "OPEN"}
  /\ socket' = "FAILING"
  /\ connectionPromise' = settle(connectionPromise, "rejected")
  /\ made' = "none"
  /\ UNCHANGED <<connected, pingInterval, intervals, lastUrl, stale>>
  /\ UNCHANGED retryVars
  /\ UNCHANGED sendVars
  /\ UNCHANGED histVars
  /\ UNCHANGED regVars
  /\ UNCHANGED waitVars

\* onclose without the test of the close code
onclose_AlwaysReconnect(code) ==
  /\ connected' = FALSE
  /\ stopPingPong
  /\ handleReconnect
  /\ closeStreak' = Min(closeStreak + 1, maxReconnectAttempts + 1)

\* the body of socket.onclose, which every transport the service created
\* carries, for event.code = code
onclose(code) ==
  /\ connected' = FALSE
  /\ stopPingPong
  /\ IF code # NORMAL_CLOSURE
     THEN /\ handleReconnect
          /\ closeStreak' = Min(closeStreak + 1, maxReconnectAttempts + 1)
     ELSE UNCHANGED retryVars

\* the close codes a transport in phase ph can report: a failed transport
\* closes abnormally; an open one is closed by the server with any code; one
\* closed locally after it had opened completes the closing handshake with
\* the code passed to close(), or fails
closeCodes(ph) ==
  IF ph = "FAILING" THEN AbnormalCodes
  ELSE IF ph \in {"OPEN", "CLOSING"} THEN CloseCodes
  ELSE {}

\* the close event of the transport this.socket refers to
OnClose(code) ==
  /\ code \in closeCodes(socket)
  /\ socket' = "CLOSED"
  /\ onclose(code)
  /\ made' = "none"
  /\ UNCHANGED <<connectionPromise, lastUrl, stale>>
  /\ UNCHANGED sendVars
  /\ UNCHANGED histVars
  /\ UNCHANGED regVars
  /\ UNCHANGED waitVars

\* the close event of a transport that disconnect() let go of
StaleClose(ph, code) ==
  /\ stale[ph] > 0
  /\ code \in closeCodes(ph)
  /\ stale' = [stale EXCEPT ![ph] = @ - 1]
  /\ onclose(code)
  /\ made' = "none"
  /\ UNCHANGED <<socket, connectionPromise, lastUrl>>
  /\ UNCHANGED sendVars
  /\ UNCHANGED histVars
  /\ UNCHANGED regVars
  /\ UNCHANGED waitVars

(* ---------------------- subscription registry ------------------------- *)
\* number of subscribe() calls the application makes
MaxSubs == 2

\* the event keys the application subscribes to
AppKeys == {"error", "sync", "threats", "sync:threats", "sync:alerts"}

\* the application's callbacks: A throws whenever it is invoked, B returns
Callbacks == {"A", "B"}
Throwing == {"A"}
\* a callback that, when invoked, calls the unsubscribe function it was given
\* for the key it is invoked under (a handler for one message)
Unsubscribing == {"S"}
\* the keys and callbacks of an application that uses such a handler
DispatchKeys == {"threats", "sync:threats"}
DispatchCallbacks == {"S", "B"}

\* the callbacks initWebSocket registers with the service, by the event key
\* they are registered under
CtxBridges ==
  [k \in {"connection:status", "threat", "alert", "sync"} |->
     IF k = "connection:status" THEN "ctx:status"
     ELSE IF k = "threat" THEN "ctx:threat"
     ELSE IF k = "alert" THEN "ctx:alert"
     ELSE "ctx:sync"]

Bridges == {CtxBridges[k] : k \in DOMAIN CtxBridges}

\* the event keys UI hooks subscribe to through the provider (useThreats),
\* and their callback
CtxKeys == {"threat", "sync:threats"}
UiCallback == "ui"

Collections == {"threats", "alerts"}
\* the operations handleSync knows
SyncOperations == {"create", "update", "delete"}
\* an operation handleSync does not know
UNKNOWN_OPERATION == "truncate"

\* `sync:${collection}`
syncKey(collection) ==
  IF collection = "threats" THEN "sync:threats"
  ELSE IF collection = "alerts" THEN "sync:alerts"
  ELSE "sync:undefined"

\* an inbound envelope: its type and, in its data, collection and operation
Envelope(type, collection, operation) ==
  [type |-> type, collection |-> collection, operation |-> operation]

Envelopes ==
  {Envelope(t, "undefined", "undefined") :
     t \in {"pong", "error", "notification", "threat", "threats", "sync:threats"}}
  \cup {Envelope("sync", c, o) :
          c \in Collections, o \in SyncOperations \cup {UNKNOWN_OPERATION}}

Range(seq) == {seq[i] : i \in 1..Len(seq)}

\* Array.prototype.indexOf, 1-based; 0 stands for -1
indexOf(list, x) ==
  IF \E i \in 1..Len(list) : list[i] = x
  THEN CHOOSE i \in 1..Len(list) : list[i] = x /\ \A j \in 1..(i - 1) : list[j] # x
  ELSE 0

\* list.splice(index, 1)
splice(list, index) == SubSeq(list, 1, index - 1) \o SubSeq(list, index + 1, Len(list))

\* this.subscribers.get(key) || []
callbacksOf(subs, arrs, key) == IF key \in DOMAIN subs THEN arrs[subs[key]] ELSE <<>>

\* subscribe(event, callback) on the registry (subs, arrs): the registry
\* after the call and the unsubscribe function it returns, which keeps the
\* event key, the array reference and the callback
subscribe(subs, arrs, event, callback) ==
  LET arrs1 == IF event \in DOMAIN subs THEN arrs ELSE Append(arrs, <<>>)
      subs1 == IF event \in DOMAIN subs THEN subs ELSE MapSet(subs, event, Len(arrs1))
      arr == subs1[event]
  IN  [subscribers |-> subs1,
       arrays |-> [arrs1 EXCEPT ![arr] = Append(@, callback)],
       closure |-> [event |-> event, arr |-> arr, cb |-> callback]]

\* the unsubscribe function without the deletion of the emptied key
unsubscribe_KeepEmpty(subs, arrs, c) ==
  LET list == arrs[c.arr]
      index == indexOf(list, c.cb)
      list1 == IF index # 0 THEN splice(list, index) ELSE list
  IN  [subscribers |-> subs,
       arrays |-> [arrs EXCEPT ![c.arr] = list1]]

\* the unsubscribe function returned by subscribe(), called on (subs, arrs)
unsubscribe(subs, arrs, c) ==
  LET list == arrs[c.arr]
      index == indexOf(list, c.cb)
      list1 == IF index # 0 THEN splice(list, index) ELSE list
  IN  [subscribers |-> IF Len(list1) = 0 THEN MapDelete(subs, c.event) ELSE subs,
       arrays |-> [arrs EXCEPT ![c.arr] = list1]]

\* what calling callback cb of the array arr, registered under key, does to
\* the registry
call(subs, arrs, key, arr, cb) ==
  IF cb \in Unsubscribing
  THEN unsubscribe(subs, arrs, [event |-> key, arr |-> arr, cb |-> cb])
  ELSE [subscribers |-> subs, arrays |-> arrs]

\* Array.prototype.forEach on the array arr from index k: len is the length
\* read before the first call, an index the array no longer has is skipped,
\* and the element of an index is read when the index is reached.  catch
\* tells whether the call is wrapped in try/catch; without it the first
\* exception ends the loop (and is caught by socket.onmessage).
RECURSIVE forEach(_, _, _, _, _, _, _)
forEach(subs, arrs, key, arr, k, len, catch) ==
  IF k > len \/ k > Len(arrs[arr])
  THEN [subscribers |-> subs, arrays |-> arrs, invoked |-> <<>>]
  ELSE LET cb == arrs[arr][k]
           r == call(subs, arrs, key, arr, cb)
           rest == IF ~catch /\ cb \in Throwing
                   THEN [subscribers |-> r.subscribers, arrays |-> r.arrays,
                         invoked |-> <<>>]
                   ELSE forEach(r.subscribers, r.arrays, key, arr, k + 1, len, catch)
       IN  [subscribers |-> rest.subscribers, arrays |-> rest.arrays,
            invoked |-> <<[key |-> key, cb |-> cb]>> \o rest.invoked]

\* callbacks.forEach without the try/catch around the call
notifySubscribers_NoCatch(subs, arrs, key) ==
  IF key \in DOMAIN subs
  THEN forEach(subs, arrs, key, subs[key], 1, Len(arrs[subs[key]]), FALSE)
  ELSE [subscribers |-> subs, arrays |-> arrs, invoked |-> <<>>]

\* const callbacks = this.subscribers.get(key) || [];
\* callbacks.forEach(callback => { try { callback(data) } catch ... }): the
\* registry after the calls and the calls made, in order
notifySubscribers(subs, arrs, key) ==
  IF key \in DOMAIN subs
  THEN forEach(subs, arrs, key, subs[key], 1, Len(arrs[subs[key]]), TRUE)
  ELSE [subscribers |-> subs, arrays |-> arrs, invoked |-> <<>>]

\* handleSync dispatching under the envelope type instead of the collection
handleSync_TypeKey(subs, arrs, env) ==
  IF env.operation \in SyncOperations
  THEN notifySubscribers(subs, arrs, "sync")
  ELSE [subscribers |-> subs, arrays |-> arrs, invoked |-> <<>>]

\* handleSync(message): the registry after it and the calls made
handleSync(subs, arrs, env) ==
  IF env.operation \in SyncOperations
  THEN notifySubscribers(subs, arrs, syncKey(env.collection))
  ELSE [subscribers |-> subs, arrays |-> arrs, invoked |-> <<>>]

\* handleMessage(message): the notification shown, the calls made and the
\* registry after them
handleMessage(subs, arrs, env) ==
  LET none == [subscribers |-> subs, arrays |-> arrs, invoked |-> <<>>]
      r == IF env.type \in {"pong", "error", "notification"} THEN none
           ELSE IF env.type = "sync" THEN handleSync(subs, arrs, env)
           ELSE notifySubscribers(subs, arrs, env.type)
  IN  [snackbar |-> IF env.type \in {"error", "notification"} THEN env.type ELSE "none",
       invoked |-> r.invoked,
       subscribers |-> r.subscribers,
       arrays |-> r.arrays]

\* the unsubscribe functions after the calls: each call of an unsubscribing
\* callback called the oldest live function the application holds for it
RECURSIVE markCalled(_, _, _)
markCalled(cl, calls, k) ==
  IF k > Len(calls) THEN cl
  ELSE LET c == calls[k]
           live == {i \in 1..Len(cl) :
                      /\ cl[i].cb = c.cb /\ cl[i].event = c.key
                      /\ cl[i].arr = subscribers[c.key] /\ cl[i].state = "live"}
       IN  IF c.cb \in Unsubscribing /\ live # {}
           THEN LET i == CHOOSE x \in live : \A y \in live : x <= y
                IN  markCalled([cl EXCEPT ![i].state = "called"], calls, k + 1)
           ELSE markCalled(cl, calls, k + 1)

\* the event key under which a callback registered by initWebSocket hands the
\* data it is called with to the provider's handleMessage
ctxKey(bridge, env) ==
  IF bridge = "ctx:threat" THEN "threat"
  ELSE IF bridge = "ctx:alert" THEN "alert"
  ELSE IF bridge = "ctx:sync" THEN syncKey(env.collection)
  ELSE "connection:status"

\* subscribersRef.current.get(key) || []
ctxCallbacksOf(key) == IF key \in DOMAIN ctxSubscribers THEN ctxSubscribers[key] ELSE {}

\* the provider callbacks reached by the calls the service made for env
ctxDeliver(calls, env) ==
  UNION {{[key |-> ctxKey(calls[i].cb, env), cb |-> c] :
            c \in ctxCallbacksOf(ctxKey(calls[i].cb, env))} :
         i \in {j \in 1..Len(calls) : calls[j].cb \in Bridges}}

\* the application calls subscribe(event, callback) and keeps the function
\* it returns
Subscribe(event, callback) ==
  /\ Len(closures) < MaxSubs
  /\ LET r == subscribe(subscribers, arrays, event, callback)
     IN  /\ subscribers' = r.subscribers
         /\ arrays' = r.arrays
         /\ closures' =
              Append([i \in 1..Len(closures) |->
                        IF closures[i].event = event /\ closures[i].cb = callback
                           /\ closures[i].state = "called"
                        THEN [closures[i] EXCEPT !.state = "renewed"]
                        ELSE closures[i]],
                     [event |-> event, arr |-> r.closure.arr, cb |-> callback,
                      state |-> "live"])
  /\ invoked' = <<>>
  /\ snackbar' = "none"
  /\ ctxInvoked' = {}
  /\ UNCHANGED <<ctxReady, ctxSubscribers>>
  /\ UNCHANGED lifeVars

\* the application calls the i-th unsubscribe function it was given; state
\* is history: "live" until it is first called, then "called", and "renewed"
\* once the same callback has been subscribed to the same key again
Unsubscribe(i) ==
  /\ i \in 1..Len(closures)
  /\ LET r == unsubscribe(subscribers, arrays, closures[i])
     IN  /\ subscribers' = r.subscribers
         /\ arrays' = r.arrays
  /\ closures' = [closures EXCEPT ![i].state = IF @ = "live" THEN "called" ELSE @]
  /\ invoked' = <<>>
  /\ snackbar' = "none"
  /\ ctxInvoked' = {}
  /\ UNCHANGED <<ctxReady, ctxSubscribers>>
  /\ UNCHANGED lifeVars

\* socket.onmessage of the open transport, for a frame that parses to env
OnMessage(env) ==
  /\ socket = "OPEN"
  /\ LET r == handleMessage(subscribers, arrays, env)
     IN  /\ invoked' = r.invoked
         /\ snackbar' = r.snackbar
         /\ subscribers' = r.subscribers
         /\ arrays' = r.arrays
         /\ closures' = markCalled(closures, r.invoked, 1)
         /\ ctxInvoked' = ctxDeliver(r.invoked, env)
  /\ UNCHANGED <<ctxReady, ctxSubscribers>>
  /\ UNCHANGED lifeVars

\* onmessage treating a frame it cannot decode as a transport fault
OnGarbage_Closes ==
  /\ socket = "OPEN"
  /\ socket' = "FAILING"
  /\ connectionPromise' = settle(connectionPromise, "rejected")
  /\ handleReconnect
  /\ invoked' = <<>>
  /\ snackbar' = "none"
  /\ ctxInvoked' = {}
  /\ UNCHANGED <<subscribers, arrays, closures, ctxReady, ctxSubscribers>>
  /\ UNCHANGED <<connected, messageQueue, pingInterval, intervals, lastUrl, stale,
                 wire, nextId, made, drained, closeStreak, orphaned, afterDisconnect>>
  /\ UNCHANGED waitVars

\* socket.onmessage of the open transport, for a frame on which JSON.parse
\* throws, or which parses to null so that reading message.type throws: the
\* catch logs the error and the handler returns
OnGarbage ==
  /\ socket = "OPEN"
  /\ invoked' = <<>>
  /\ snackbar' = "none"
  /\ ctxInvoked' = {}
  /\ UNCHANGED <<subscribers, arrays, closures, ctxReady, ctxSubscribers>>
  /\ UNCHANGED lifeVars

\* WebSocketProvider.initWebSocket for an authenticated user, once
\* waitForConnection() has resolved: four subscribe() calls whose unsubscribe
\* functions are dropped, then handleConnectionChange(true)
InitWebSocket ==
  /\ connected
  /\ ~ctxReady
  /\ LET r1 == subscribe(subscribers, arrays, "connection:status", CtxBridges["connection:status"])
         r2 == subscribe(r1.subscribers, r1.arrays, "threat", CtxBridges["threat"])
         r3 == subscribe(r2.subscribers, r2.arrays, "alert", CtxBridges["alert"])
         r4 == subscribe(r3.subscribers, r3.arrays, "sync", CtxBridges["sync"])
     IN  /\ subscribers' = r4.subscribers
         /\ arrays' = r4.arrays
  /\ ctxReady' = TRUE
  /\ invoked' = <<>>
  /\ snackbar' = "status"
  /\ ctxInvoked' = {[key |-> "connection:status", cb |-> c] :
                      c \in ctxCallbacksOf("connection:status")}
  /\ UNCHANGED <<closures, ctxSubscribers>>
  /\ UNCHANGED lifeVars

\* subscribe(event, callback) of the provider, as a UI hook calls it
CtxSubscribe(event) ==
  /\ event \notin DOMAIN ctxSubscribers
  /\ ctxSubscribers' = MapSet(ctxSubscribers, event, ctxCallbacksOf(event) \cup {UiCallback})
  /\ invoked' = <<>>
  /\ snackbar' = "none"
  /\ ctxInvoked' = {}
  /\ UNCHANGED <<subscribers, arrays, closures, ctxReady>>
  /\ UNCHANGED lifeVars

\* the function the provider's subscribe returned, as the hook's cleanup
\* calls it
CtxUnsubscribe(event) ==
  /\ event \in DOMAIN ctxSubscribers
  /\ LET callbacks == ctxSubscribers[event] \ {UiCallback}
     IN  ctxSubscribers' = IF callbacks = {} THEN MapDelete(ctxSubscribers, event)
                           ELSE MapSet(ctxSubscribers, event, callbacks)
  /\ invoked' = <<>>
  /\ snackbar' = "none"
  /\ ctxInvoked' = {}
  /\ UNCHANGED <<subscribers, arrays, closures, ctxReady>>
  /\ UNCHANGED lifeVars

\* waitForConnection(): resolved at once with this.socket when connected,
\* otherwise a new promise whose resolve function is pushed
WaitForConnection ==
  /\ Len(promises) < MaxWaiters
  /\ IF connected
     THEN /\ promises' = Append(promises, [pushed |-> FALSE, calls |-> 1, value |-> socket])
          /\ UNCHANGED connectionResolvers
     ELSE /\ promises' = Append(promises, [pushed |-> TRUE, calls |-> 0, value |-> "none"])
          /\ connectionResolvers' = Append(connectionResolvers, Len(promises) + 1)
  /\ made' = "none"
  /\ UNCHANGED <<socket, connected, reconnectAttempts, messageQueue, pingInterval,
                 intervals, connectionPromise, lastUrl, stale, timers, notified, wire,
                 nextId, drained, closeStreak, lastDelay, orphaned, afterDisconnect>>
  /\ UNCHANGED regVars

(* --------------------------- specification ---------------------------- *)
Next ==
  \/ \E url \in AppUrls, token \in BOOLEAN : Connect(url, token)
  \/ \E token \in BOOLEAN : VisibilityChange(token)
  \/ Disconnect
  \/ \E ok \in BOOLEAN : Send(ok)
  \/ PingTick
  \/ \E token \in BOOLEAN : TimerFire(token)
  \/ OnOpen
  \/ OnError
  \/ \E code \in CloseCodes : OnClose(code)
  \/ \E ph \in StalePhases, code \in CloseCodes : StaleClose(ph, code)

Spec == Init /\ [][Next]_vars

\* the registry and the dispatch of inbound frames, on the connection the
\* module opens when it is loaded in the browser of a logged-in user (a token
\* is stored)
RegistryNext ==
  \/ Connect(WS_UPDATES_URL, TRUE)
  \/ OnOpen
  \/ \E event \in AppKeys, callback \in Callbacks : Subscribe(event, callback)
  \/ \E i \in 1..MaxSubs : Unsubscribe(i)
  \/ \E env \in Envelopes : OnMessage(env)
  \/ OnGarbage

RegistrySpec == Init /\ [][RegistryNext]_vars

\* the provider and the UI hooks on top of the service, on the same connection
ContextNext ==
  \/ \E token \in BOOLEAN : Connect(WS_UPDATES_URL, token)
  \/ OnOpen
  \/ InitWebSocket
  \/ \E event \in CtxKeys : CtxSubscribe(event)
  \/ \E event \in CtxKeys : CtxUnsubscribe(event)
  \/ \E env \in Envelopes : OnMessage(env)

ContextSpec == Init /\ [][ContextNext]_vars

\* the callers of waitForConnection() over the life of the connection the
\* module opens
WaitersNext ==
  \/ Connect(WS_UPDATES_URL, TRUE)
  \/ Disconnect
  \/ TimerFire(TRUE)
  \/ OnOpen
  \/ OnError
  \/ \E code \in CloseCodes : OnClose(code)
  \/ WaitForConnection

WaitersSpec == Init /\ [][WaitersNext]_vars

\* the registry of an application whose handlers unsubscribe themselves when
\* they are invoked
DispatchNext ==
  \/ Connect(WS_UPDATES_URL, TRUE)
  \/ OnOpen
  \/ \E event \in DispatchKeys, callback \in DispatchCallbacks : Subscribe(event, callback)
  \/ \E i \in 1..MaxSubs : Unsubscribe(i)
  \/ \E env \in Envelopes : OnMessage(env)

DispatchSpec == Init /\ [][DispatchNext]_vars

TypeOK ==
  /\ socket \in {"null", "CONNECTING", "OPEN", "FAILING", "CLOSED"}
  /\ connected \in BOOLEAN
  /\ reconnectAttempts \in 0..maxReconnectAttempts
  /\ pingInterval \in BOOLEAN
  /\ intervals \in 0..1
  /\ connectionPromise \in {"null", "pending", "resolved", "rejected"}
  /\ notified \in BOOLEAN
  /\ nextId \in 0..MaxSends
  /\ timers \in 0..MaxTimers
  /\ staleCount \in 0..MaxStale
  /\ orphaned \in 0..timers
  /\ afterDisconnect \in BOOLEAN
  /\ Len(closures) \in 0..MaxSubs
  /\ \A i \in 1..Len(closures) :
       /\ closures[i].arr \in 1..Len(arrays)
       /\ closures[i].state \in {"live", "called", "renewed"}
  /\ \A k \in DOMAIN subscribers : subscribers[k] \in 1..Len(arrays)
  /\ snackbar \in {"none", "error", "notification", "status"}
  /\ Len(promises) \in 0..MaxWaiters
  /\ \A i \in 1..Len(connectionResolvers) : connectionResolvers[i] \in 1..Len(promises)
  /\ ctxReady \in BOOLEAN

(* ------------------------------ helpers ------------------------------- *)
\* the close event of some transport, current or let go of, with this code
CloseEvent(code) == OnClose(code) \/ \E ph \in StalePhases : StaleClose(ph, code)

AbnormalCloseEvent == \E code \in AbnormalCodes : CloseEvent(code)

Increasing(ids) == \A i, j \in 1..Len(ids) : i < j => ids[i] < ids[j]

Ids(q) == [i \in 1..Len(q) |-> q[i].id]

\* the messages of q that JSON.stringify accepts
Serializable(q) == SelectSeq(q, LAMBDA m : m.ok)

\* position of the first message of q whose transmission throws, 0 if none
FirstThrowing(q) ==
  IF \E i \in 1..Len(q) : ~q[i].ok
  THEN CHOOSE i \in 1..Len(q) : ~q[i].ok /\ \A j \in 1..(i - 1) : q[j].ok
  ELSE 0

\* the callbacks the registry holds for key, in registration order
Registered(key) == callbacksOf(subscribers, arrays, key)
RegisteredNext(key) == callbacksOf(subscribers', arrays', key)

\* one call of each callback of list, in order, under key
AllOf(key, list) == [i \in 1..Len(list) |-> [key |-> key, cb |-> list[i]]]

\* number of occurrences of x in list
Count(x, list) == Cardinality({i \in 1..Len(list) : list[i] = x})

\* env is a sync envelope with an operation handleSync knows
IsSync(env) == env.type = "sync" /\ env.operation \in {"create", "update", "delete"}

(* -------------------------------- C1 ---------------------------------- *)
\* C1: a connect() call made while the promise of an earlier connect() is
\* still pending returns that same promise and opens no transport: as long as
\* the stored promise is pending no step constructs a promise or a transport,
\* and a connect() in that state leaves socket, promise and URL as they were.
C1_SinglePendingAttempt ==
  [][connectionPromise = "pending" =>
       /\ made' \in {"none", "same"}
       /\ (made' = "same" => UNCHANGED <<socket, connectionPromise, lastUrl, stale>>)]_vars

\* a second connect() arrived while the first attempt was still pending
C1_Witness == made = "same" /\ connectionPromise = "pending" /\ socket = "CONNECTING"

(* -------------------------------- C2 ---------------------------------- *)
\* C2: when the backoff timer of an abnormal close fires and the client is
\* still not connected, a new transport is opened.
C2_RetryOpensTransport ==
  [][(\E token \in BOOLEAN : TimerFire(token)) /\ ~connected => made' = "transport"]_vars

(* -------------------------------- C3 ---------------------------------- *)
\* C3: Scenario B: after each of the (up to three) consecutive abnormal
\* closes, once the scheduled delay has elapsed the retry transport is in
\* flight (connecting, failing or open), so that the fourth attempt can open.
C3_ScenarioBRetryInFlight ==
  (reconnectAttempts \in 1..3 /\ timers = 0 /\ ~connected /\ socket # "null")
    => socket \in {"CONNECTING", "FAILING", "OPEN"}

(* -------------------------------- C4 ---------------------------------- *)
\* C4 as stated: after maxReconnectAttempts consecutive failed connections no
\* automatic connect() is scheduled, the client has given up and the
\* notification has been emitted.
C4_AbandonedAfterMaxFailures ==
  closeStreak >= maxReconnectAttempts => (timers = 0 /\ notified /\ ~connected)

\* C4 amended: the abnormal close that arrives with reconnectAttempts already
\* at maxReconnectAttempts (the failure after the last of the
\* maxReconnectAttempts retries was scheduled, i.e. the
\* (maxReconnectAttempts + 1)-th consecutive one) schedules no timer, leaves
\* the counter at the ceiling and the client not connected, and emits the
\* notification; before that failure, within the streak, nothing is emitted
\* by it.
C4_AbandonedAfterCeiling ==
  /\ [](closeStreak > maxReconnectAttempts =>
          (notified /\ reconnectAttempts = maxReconnectAttempts))
  /\ [][(reconnectAttempts = maxReconnectAttempts /\ AbnormalCloseEvent) =>
          (/\ timers' = timers
           /\ made' = "none"
           /\ reconnectAttempts' = maxReconnectAttempts
           /\ ~connected'
           /\ notified')]_vars
  /\ [][(reconnectAttempts < maxReconnectAttempts /\ closeStreak' = closeStreak + 1) =>
          (timers' = timers + 1 /\ notified' = notified)]_vars

\* the client has given up: one failure more than the ceiling, nothing pending
C4_Witness ==
  closeStreak = maxReconnectAttempts + 1 /\ notified /\ timers = 0 /\ ~connected

(* -------------------------------- C5 ---------------------------------- *)
ExpectedDelays == <<2000, 4000, 8000, 16000, 30000>>

\* C5: after N consecutive abnormal closes (1 <= N <= maxReconnectAttempts)
\* the delay of the N-th scheduled retry is min(1000 * 2^N, 30000) ms, i.e.
\* 2000, 4000, 8000, 16000, 30000; it never exceeds 30000 and never decreases
\* within a streak.
C5_BackoffDelays ==
  /\ [](closeStreak \in 1..maxReconnectAttempts =>
          /\ lastDelay = ExpectedDelays[closeStreak]
          /\ lastDelay = Min(1000 * (2 ^ closeStreak), 30000))
  /\ [](lastDelay <= 30000)
  /\ [][closeStreak' > closeStreak => lastDelay' >= lastDelay]_vars

\* the fifth retry of a streak has been scheduled, with the capped delay
C5_Witness == closeStreak = 5 /\ lastDelay = 30000 /\ timers = 1

(* -------------------------------- C6 ---------------------------------- *)
\* C6: the transport receives messages in the order send() was called: the
\* frames on the wire are in send() order, the queue is in send() order, and
\* nothing still queued was sent before a frame already on the wire.
C6_SendOrder ==
  /\ Increasing(wire)
  /\ Increasing(Ids(messageQueue))
  /\ \A i \in 1..Len(wire), j \in 1..Len(messageQueue) : wire[i] < messageQueue[j].id

\* a queued message was flushed on open and a later one was sent immediately
C6_Witness == wire = <<1, 2>> /\ drained = 1

(* -------------------------------- C7 ---------------------------------- *)
\* C7: when a transport opens, every queued message the transport accepts is
\* transmitted exactly once, in order, and the queue is empty afterwards; no
\* message id ever appears twice on the wire or both on the wire and in the
\* queue.
C7_QueuedExactlyOnce ==
  /\ [](\A i, j \in 1..Len(wire) : i # j => wire[i] # wire[j])
  /\ [](\A i \in 1..Len(wire), j \in 1..Len(messageQueue) : wire[i] # messageQueue[j].id)
  /\ [][(~connected /\ connected') =>
          /\ messageQueue' = <<>>
          /\ wire' = wire \o Ids(Serializable(messageQueue))
          /\ drained' = drained + Len(Serializable(messageQueue))]_vars

\* Scenario A: one message queued while disconnected, one frame after the open
C7_Witness == nextId = 1 /\ wire = <<1>> /\ drained = 1 /\ messageQueue = <<>>

(* -------------------------------- C8 ---------------------------------- *)
\* C8: send() returns true exactly when the message was handed to the
\* transport during the call and false exactly when it was appended to the
\* tail of the queue; it never returns with the message neither transmitted
\* nor queued.
C8_SentOrQueued ==
  [][\A ok \in BOOLEAN :
       Send(ok) =>
         LET m == Msg(nextId + 1, ok)
             r == send(connected, socket, messageQueue, wire, m)
         IN  /\ r.ret <=> wire' = Append(wire, m.id)
             /\ ~r.ret <=> messageQueue' = Append(messageQueue, m)]_vars

(* -------------------------------- C9 ---------------------------------- *)
\* C9: if a transmission throws while the queue is drained after an open,
\* the drain stops: the messages before the throwing one are on the wire, and
\* it and every message after it remain queued, in order.
C9_DrainStopsOnThrow ==
  [][(~connected /\ connected' /\ FirstThrowing(messageQueue) > 0) =>
       LET i == FirstThrowing(messageQueue)
       IN  /\ messageQueue' = SubSeq(messageQueue, i, Len(messageQueue))
           /\ wire' = wire \o Ids(SubSeq(messageQueue, 1, i - 1))]_vars

(* -------------------------------- C10 --------------------------------- *)
\* C10: a close event with the normal-closure code 1000, and disconnect()
\* itself, never trigger reconnection: no timer is scheduled, no transport is
\* opened, reconnectAttempts is unchanged and the client is not connected.
C10_NormalCloseNoReconnect ==
  [][(CloseEvent(NORMAL_CLOSURE) \/ Disconnect) =>
       (/\ timers' = timers
        /\ reconnectAttempts' = reconnectAttempts
        /\ notified' = notified
        /\ made' = "none"
        /\ ~connected')]_vars

\* Scenario C: a connection that had opened and carried a frame was let go of
\* by disconnect() and has closed, with no abnormal close since it opened
C10_Witness ==
  /\ socket = "null" /\ connectionPromise = "null" /\ staleCount = 0
  /\ wire # <<>> /\ closeStreak = 0 /\ timers = 0 /\ ~connected

(* -------------------------------- C11 --------------------------------- *)
\* C11: disconnect() invalidates the pending reconnect schedule: when a timer
\* that was already pending at the last disconnect() fires, the application
\* not having called connect() since, no transport is opened and the client
\* stays not connected.
C11_DisconnectCancelsRetry ==
  [][(orphaned' < orphaned /\ timers' < timers) =>
       (made' # "transport" /\ socket' = socket /\ ~connected')]_vars

(* -------------------------------- C12 --------------------------------- *)
\* C12: after disconnect() has returned, in whatever state it was called, the
\* next connect() starts fresh: it never returns the promise of the earlier
\* attempt, and with a well-formed URL it opens a new transport.
C12_ConnectFreshAfterDisconnect ==
  [][afterDisconnect =>
       /\ made' # "same"
       /\ \A token \in BOOLEAN :
            Connect(WS_UPDATES_URL, token) => made' = "transport"]_vars

(* -------------------------------- C13 --------------------------------- *)
\* C13: an inbound envelope of type 'error' shows the built-in error
\* notification and is also delivered to every handler subscribed under the
\* key 'error'.
C13_ErrorAlsoToSubscribers ==
  [][\A env \in Envelopes :
       (env.type = "error" /\ OnMessage(env)) =>
         /\ snackbar' = "error"
         /\ invoked' = AllOf("error", Registered("error"))]_vars

(* -------------------------------- C14 --------------------------------- *)
\* C14: an inbound sync envelope with collection C and operation create,
\* update or delete is delivered to every handler subscribed under 'sync:C',
\* in registration order, and to no handler subscribed under 'sync', under C
\* or under 'sync:D' for another collection D.
C14_SyncRouting ==
  [][\A env \in Envelopes :
       (IsSync(env) /\ OnMessage(env)) =>
         /\ invoked' = AllOf(syncKey(env.collection), Registered(syncKey(env.collection)))
         /\ \A i \in 1..Len(invoked') :
              invoked'[i].key \notin
                {"sync", env.collection} \cup {syncKey(d) : d \in Collections \ {env.collection}}]_vars

\* a sync envelope for threats reached the handler under 'sync:threats' while
\* another handler was subscribed under 'sync'
C14_Witness ==
  /\ Registered("sync") # <<>>
  /\ invoked = <<[key |-> "sync:threats", cb |-> "B"]>>

(* -------------------------------- C15 --------------------------------- *)
\* C15: a UI consumer that subscribed to 'sync:<collection>' through the
\* provider's subscribe is invoked when an inbound sync envelope for that
\* collection arrives, the provider having registered with the service.
C15_UiSyncConsumerInvoked ==
  [][\A env \in Envelopes :
       (/\ IsSync(env)
        /\ ctxReady
        /\ UiCallback \in ctxCallbacksOf(syncKey(env.collection))
        /\ OnMessage(env)) =>
         [key |-> syncKey(env.collection), cb |-> UiCallback] \in ctxInvoked']_vars

(* -------------------------------- C16 --------------------------------- *)
\* C16: a handler that throws during a dispatch stops nothing: whenever a
\* message is dispatched to a key, every handler registered under that key is
\* invoked, in order, those after a throwing handler included, and the
\* dispatch leaves the registry as it was, so that the next message is
\* dispatched normally.
C16_HandlerExceptionIsolated ==
  [][invoked' # <<>> =>
       /\ invoked' = AllOf(invoked'[1].key, Registered(invoked'[1].key))
       /\ UNCHANGED <<subscribers, arrays, closures>>]_vars

\* the throwing handler A was invoked and B, registered after it, as well
C16_Witness ==
  /\ Len(invoked) = 2
  /\ invoked[1].cb \in Throwing
  /\ invoked[2].cb \notin Throwing
  /\ invoked[1].key = invoked[2].key

(* -------------------------------- C17 --------------------------------- *)
\* C17: once the function returned by subscribe(K, h) has been called (and h
\* has not been subscribed to K again since), no dispatch to K invokes h.
C17_UnsubscribedNeverInvoked ==
  \A i \in 1..Len(closures) :
    closures[i].state = "called" =>
      [key |-> closures[i].event, cb |-> closures[i].cb] \notin Range(invoked)

(* -------------------------------- C18 --------------------------------- *)
\* C18: calling an unsubscribe function, at any time and any number of times,
\* removes at most the one handler instance it was returned for: under every
\* key, every other handler stays registered as often as it was.
C18_UnsubscribeRemovesOnlyOwn ==
  [][\A i \in 1..MaxSubs :
       Unsubscribe(i) =>
         \A k \in AppKeys, g \in Callbacks :
           IF k = closures[i].event /\ g = closures[i].cb
           THEN Count(g, RegisteredNext(k)) >= Count(g, Registered(k)) - 1
           ELSE Count(g, RegisteredNext(k)) = Count(g, Registered(k))]_vars

(* -------------------------------- C19 --------------------------------- *)
\* C19: the registry never maps a key to an empty handler list: a key is
\* present exactly when its list holds at least one handler, and the removal
\* of the last handler of a key deletes the key.
C19_NoEmptyHandlerList ==
  /\ [](\A k \in DOMAIN subscribers : arrays[subscribers[k]] # <<>>)
  /\ [](\A k \in AppKeys : k \in DOMAIN subscribers <=> Registered(k) # <<>>)
  /\ [][\A k \in DOMAIN subscribers :
          (Len(Registered(k)) = 1 /\ arrays'[subscribers[k]] = <<>>) =>
            k \notin DOMAIN subscribers']_vars

\* the only handler of a key was removed and the key is gone
C19_Witness ==
  /\ Len(closures) = 1
  /\ closures[1].state = "called"
  /\ arrays = <<(<<>>)>>
  /\ DOMAIN subscribers = {}

(* -------------------------------- C20 --------------------------------- *)
\* C20: the outbound queue grows only while the client is not connected: a
\* step taken while connected never lengthens the queue, a step that lengthens
\* it leaves the client not connected, and whenever the client is connected
\* (the open handler has completed) the queue is empty.
C20_QueueGrowsOnlyDisconnected ==
  /\ [](connected => messageQueue = <<>>)
  /\ [][connected => Len(messageQueue') <= Len(messageQueue)]_vars
  /\ [][Len(messageQueue') > Len(messageQueue) => (~connected /\ ~connected')]_vars

\* a message queued before the open was flushed by it, and a send() issued
\* while connected went to the wire, not to the queue
C20_Witness ==
  /\ connected
  /\ drained = 1
  /\ Len(wire) = 2
  /\ messageQueue = <<>>

(* -------------------------------- C21 --------------------------------- *)
\* C21: whenever a transport open completes reconnectAttempts is 0, whatever
\* it was before, and the first abnormal close after an open schedules its
\* retry with the first backoff delay, 2000 ms.
C21_OpenResetsAttempts ==
  /\ [][(socket = "CONNECTING" /\ socket' = "OPEN") =>
          (reconnectAttempts' = 0 /\ connected')]_vars
  /\ [][(closeStreak = 0 /\ closeStreak' = 1) =>
          (reconnectAttempts' = 1 /\ lastDelay' = 2000 /\ timers' = timers + 1)]_vars

\* the client had given up (counter at the ceiling), a later attempt opened,
\* and the first abnormal close after that open was given the first delay
C21_Witness ==
  notified /\ closeStreak = 1 /\ reconnectAttempts = 1 /\ lastDelay = 2000 /\ timers = 1

(* -------------------------------- C22 --------------------------------- *)
\* the close event of the transport this.socket refers to, that transport
\* having failed before it opened (its promise was rejected by onerror)
FailedAttemptCloses ==
  socket = "FAILING" /\ connectionPromise = "rejected" /\ socket' = "CLOSED"

\* C22 as stated: a failed connection attempt increments reconnectAttempts by
\* exactly one and schedules exactly one retry timer, the error handler
\* scheduling nothing.
C22_FailedAttemptCountsOnce ==
  /\ [][(socket = "CONNECTING" /\ socket' = "FAILING") =>
          (connectionPromise' = "rejected" /\ UNCHANGED retryVars)]_vars
  /\ [][FailedAttemptCloses =>
          (reconnectAttempts' = reconnectAttempts + 1 /\ timers' = timers + 1)]_vars

\* C22 amended: the error handler only rejects the pending promise and
\* schedules nothing; the close handler of the failed attempt increments
\* reconnectAttempts by exactly one and schedules exactly one timer while the
\* counter is below maxReconnectAttempts, and at the ceiling leaves the
\* counter and the timers as they are.
C22_FailedAttemptCountsOnceBelowCeiling ==
  /\ [][(socket = "CONNECTING" /\ socket' = "FAILING") =>
          (connectionPromise' = "rejected" /\ UNCHANGED retryVars)]_vars
  /\ [][(FailedAttemptCloses /\ reconnectAttempts < maxReconnectAttempts) =>
          (reconnectAttempts' = reconnectAttempts + 1 /\ timers' = timers + 1)]_vars
  /\ [][(FailedAttemptCloses /\ reconnectAttempts = maxReconnectAttempts) =>
          (reconnectAttempts' = reconnectAttempts /\ timers' = timers)]_vars

\* a first attempt failed before opening and has closed: one increment, one timer
C22_Witness ==
  /\ socket = "CLOSED" /\ connectionPromise = "rejected"
  /\ reconnectAttempts = 1 /\ timers = 1 /\ closeStreak = 1 /\ wire = <<>>

(* -------------------------------- C23 --------------------------------- *)
\* C23: the keepalive interval is armed exactly while the client is
\* connected, at most one interval exists at any time, the interval callback
\* sends a ping while connected, and no ping is ever appended to the queue.
C23_KeepaliveWhileConnected ==
  /\ [](pingInterval <=> connected)
  /\ [](intervals <= 1 /\ (pingInterval <=> intervals = 1))
  /\ [][PingTick =>
          /\ messageQueue' = messageQueue
          /\ (connected /\ socket = "OPEN") => wire' = Append(wire, nextId + 1)]_vars

\* a ping went out on the open connection
C23_Witness ==
  connected /\ pingInterval /\ intervals = 1 /\ wire = <<1>> /\ drained = 0 /\ socket = "OPEN"

(* -------------------------------- C25 --------------------------------- *)
\* C25: when the page becomes visible while the client is not connected the
\* trigger calls connect(); the call leaves reconnectAttempts and the
\* scheduled timers as they are, and no connect(), of the trigger, of the
\* backoff timer or of the application, creates a transport while an attempt
\* is pending.
C25_VisibilityTrigger ==
  /\ [][\A token \in BOOLEAN :
          VisibilityChange(token) =>
            /\ (~connected => made' # "none")
            /\ UNCHANGED <<reconnectAttempts, timers, lastDelay>>]_vars
  /\ [][made' = "transport" => (connectionPromise # "pending" /\ socket # "CONNECTING")]_vars

\* a connect() made while a backoff timer was pending collapsed onto the
\* stored promise, counter and timer untouched
C25_Witness ==
  ~connected /\ made = "same" /\ timers = 1 /\ reconnectAttempts = 2 /\ socket = "CLOSED"

(* -------------------------------- C27 --------------------------------- *)
\* C27: the stored connection promise is non-null only while an attempt is
\* pending or the connection is open, so that a connect() made while the
\* client is not connected and no attempt is in flight opens a transport.
C27_PromiseOnlyWhileInFlight ==
  connectionPromise # "null" => socket \in {"CONNECTING", "OPEN"}

(* -------------------------------- C28 --------------------------------- *)
\* C28: isConnected() is true exactly when the current transport is open (or
\* has failed after it opened, its close event still to come), and the close
\* event of a transport that disconnect() has let go of changes neither the
\* connected flag nor the keepalive interval and does not call
\* handleReconnect.
C28_StaleEventsIgnored ==
  /\ [](socket = "OPEN" => connected)
  /\ [](connected => socket \in {"OPEN", "FAILING"})
  /\ [][staleCount' < staleCount =>
          UNCHANGED <<connected, pingInterval, reconnectAttempts, timers, notified>>]_vars

(* -------------------------------- C30 --------------------------------- *)
\* C30: the address of every transport opened carries at most one token
\* query parameter.
C30_AtMostOneToken ==
  \A u \in lastUrl : u.tokens \in {"none", "one"}

\* C24: processing an inbound frame never changes the connection: a frame
\* that fails to decode, and an envelope of type 'error', leave the transport,
\* the connected flag, reconnectAttempts, the retry timers, the keepalive and
\* the outbound queue as they were (handleReconnect is not called), and leave
\* the registry as it was, so that the frames after it are dispatched as
\* before; the error envelope shows one notification and calls no subscriber.
C24_FramesLeaveConnection ==
  /\ [][OnGarbage =>
          /\ UNCHANGED lifeVars
          /\ UNCHANGED <<subscribers, arrays, closures, ctxReady, ctxSubscribers>>
          /\ socket' = "OPEN"
          /\ invoked' = <<>> /\ snackbar' = "none"]_vars
  /\ [][\A env \in Envelopes :
          (env.type = "error" /\ OnMessage(env)) =>
            /\ UNCHANGED lifeVars
            /\ UNCHANGED <<subscribers, arrays, closures, ctxReady, ctxSubscribers>>
            /\ socket' = "OPEN"
            /\ invoked' = <<>> /\ snackbar' = "error"]_vars
  /\ [][(snackbar = "error" /\ \E env \in Envelopes : OnMessage(env)) =>
          \E env \in Envelopes :
            /\ invoked' = handleMessage(subscribers, arrays, env).invoked
            /\ UNCHANGED <<socket, connected, reconnectAttempts, timers>>]_vars

\* an error envelope has been processed on an open connection with handlers
\* registered: the connection is still up, the keepalive armed, nothing
\* scheduled
C24_Witness ==
  /\ snackbar = "error"
  /\ socket = "OPEN" /\ connected /\ pingInterval
  /\ reconnectAttempts = 0 /\ timers = 0
  /\ Len(closures) = 2
  /\ DOMAIN subscribers # {}

\* C26: every promise waitForConnection() returned while not connected is
\* resolved exactly once, with the open transport, by the next open that
\* completes, and by nothing else; the list of waiters is empty after that
\* open; a promise returned while connected is resolved at once and never
\* enters the list.
C26_WaitersResolvedOnce ==
  /\ [](\A w \in 1..Len(promises) :
         /\ promises[w].calls <= 1
         /\ promises[w].pushed =>
              /\ (promises[w].calls = 0) =
                   (Cardinality({i \in 1..Len(connectionResolvers) :
                                   connectionResolvers[i] = w}) = 1)
              /\ promises[w].calls = 1 => promises[w].value = "OPEN"
         /\ ~promises[w].pushed =>
              /\ promises[w].calls = 1
              /\ \A i \in 1..Len(connectionResolvers) : connectionResolvers[i] # w)
  /\ [][OnOpen =>
          /\ connectionResolvers' = <<>>
          /\ Len(promises') = Len(promises)
          /\ \A w \in 1..Len(promises) :
               promises'[w].calls = 1 /\ (promises[w].calls = 0 => promises'[w].value = "OPEN")]_vars
  /\ [][WaitForConnection =>
          /\ Len(promises') = Len(promises) + 1
          /\ promises'[Len(promises')].pushed = ~connected
          /\ promises'[Len(promises')].calls = (IF connected THEN 1 ELSE 0)
          /\ connected => UNCHANGED connectionResolvers]_vars
  /\ [][\A w \in 1..Len(promises) :
          /\ promises[w].calls = 1 => promises'[w] = promises[w]
          /\ promises'[w] # promises[w] => (socket = "CONNECTING" /\ socket' = "OPEN")]_vars

\* two callers waited while not connected; the open that followed resolved
\* both, once, with the open transport, and left the list empty
C26_Witness ==
  /\ Len(promises) = 2
  /\ \A w \in 1..2 : promises[w].pushed /\ promises[w].calls = 1 /\ promises[w].value = "OPEN"
  /\ connectionResolvers = <<>>
  /\ connected /\ socket = "OPEN"
  /\ lastUrl # {} /\ reconnectAttempts = 0 /\ afterDisconnect = FALSE

\* C29: when a handler unsubscribes from key K while a message is being
\* dispatched to K, every other handler registered for K when the dispatch
\* began, not itself unsubscribed, is still invoked exactly once: a dispatch
\* invokes each handler that does not unsubscribe as many times as it was
\* registered under the key when the dispatch began.
C29_UnsubscribeDuringDispatch ==
  [][\A env \in Envelopes :
       (/\ OnMessage(env)
        /\ env.type \notin {"pong", "error", "notification"}
        /\ env.type = "sync" => env.operation \in SyncOperations) =>
         LET key == IF env.type = "sync" THEN syncKey(env.collection) ELSE env.type
         IN  \A g \in DispatchCallbacks \ Unsubscribing :
               Count([key |-> key, cb |-> g], invoked') = Count(g, Registered(key))]_vars

====
